---- MODULE Spec2Model ----
(***************************************************************************)
(* State-machine model of the hiveutil commands of this repository:        *)
(*   - `awsprivatelink endpointvpc remove vpc-id`  (src/unnamed/part_001)  *)
(*   - `awsprivatelink disable`     (src/contrib/pkg/awsprivatelink)       *)
(*   - `deprovision powervs`        (src/contrib/pkg/deprovision)          *)
(* The Kubernetes API server (HiveConfig, Secrets) and the AWS account     *)
(* (peering connections, routes, security-group rules) are the shared      *)
(* state; one command runs at a time, one SDK/API call per step.           *)
(***************************************************************************)
EXTENDS Integers, Sequences, FiniteSets, TLC

\* ---------------------------------------------------------------- bounds
MaxEndpointVpcs   == 2   \* endpoint VPCs that may be listed in the inventory
MaxAssociatedVpcs == 2   \* associated VPCs that may be listed
MaxRouteTables    == 2   \* route tables per VPC that match the filters
PageSize          == 1   \* route tables per DescribeRouteTables page
MaxFaults         == 1   \* injected unexpected API/SDK errors per behaviour
MaxZones          == 3   \* zones a MachinePool specifies / a region has
MaxReplicas       == 3   \* replicas of a MachinePool

\* ------------------------------------------------------------ identifiers
\* Every cloud identifier is a record of the same shape.
Id(kind, role, n, k) == [kind |-> kind, role |-> role, n |-> n, k |-> k]
NoId == Id("", "", 0, 0)

EndpointVpc(n)   == Id("vpc", "endpoint", n, 0)
AssociatedVpc(n) == Id("vpc", "associated", n, 0)
CidrOf(vpc)      == Id("cidr", vpc.role, vpc.n, 0)
DefaultSGOf(vpc) == Id("sg-default", vpc.role, vpc.n, 0)
WorkerSGOf(vpc)  == Id("sg-worker", vpc.role, vpc.n, 0)
RouteTableOf(vpc, k) == Id("rtb", vpc.role, vpc.n, k)

EndpointVpcIds   == {EndpointVpc(n) : n \in 1..MaxEndpointVpcs}
AssociatedVpcIds == {AssociatedVpc(n) : n \in 1..MaxAssociatedVpcs}

\* Regions alternate, so same-region and cross-region pairs both exist.
RegionOf(vpc) == IF vpc.n % 2 = 1 THEN "us-east-1" ELSE "us-west-2"

\* hivev1.AWSPrivateLinkInventory / hivev1.AWSAssociatedVPC entries
VpcEntry(vpc) == [VPCID |-> vpc, Region |-> RegionOf(vpc)]

\* HiveConfig.spec.awsPrivateLink is a pointer: <<>> is nil, <<cfg>> is set.
NilPrivateLink == <<>>
HiveConfigOf(inventory, associated) ==
    [awsPrivateLink |-> << [endpointVPCInventory |-> inventory,
                            associatedVPCs       |-> associated] >>]
EmptyHiveConfig == [awsPrivateLink |-> NilPrivateLink]

\* -------------------------------------------------------------- K8s Secrets
HiveNS == "hive"
PrivateLinkHubAcctCredsName == "awsprivatelink-hub-acct-creds"
HubSecret    == [namespace |-> HiveNS, name |-> PrivateLinkHubAcctCredsName, label |-> TRUE]
UnlabelledSecret == [namespace |-> HiveNS, name |-> "aws-creds", label |-> FALSE]
OtherNSSecret == [namespace |-> "other", name |-> PrivateLinkHubAcctCredsName, label |-> TRUE]

\* ------------------------------------------------------------------- state
VARIABLES
    apiHiveConfig,   \* HiveConfig/hive stored on the API server
    apiSecrets,      \* Secrets stored on the API server
    peerings,        \* AWS: VPC peering connections [assoc, endpoint, status]
    routes,          \* AWS: routes [rtb, dest]
    ingress,         \* AWS: SG ingress rules [sg, kind, peer]
    cmd,             \* command of the current process: "none", "remove", "disable"
    pc,              \* position of the current process
    o,               \* endpointVPCRemoveOptions
    loc,             \* locals of endpointVPCRemoveOptions.Run and its callees
    d,               \* locals of disableOptions.Run
    calls,           \* API/SDK calls issued by the current process, in order
    lastErr,         \* error code returned by the latest call ("ok" when nil)
    seen,            \* error codes the current process logged and survived
    hcAtStart,       \* apiHiveConfig when the current process started
    faults,          \* unexpected errors injected so far
    pvsPc,           \* position of the PowerVS deprovision command
    pvsOpt,          \* powerVSDeprovisionOptions
    pvsDestroyer,    \* "none", "constructed", "ran"
    pvsErr,          \* error reported by the fatal exit of the PowerVS command
    gms              \* PowerVSActuator.GenerateMachineSets: arguments and results

k8sVars   == <<apiHiveConfig, apiSecrets>>
awsVars   == <<peerings, routes, ingress>>
procVars  == <<cmd, pc, o, loc, d, calls, lastErr, seen, hcAtStart>>
plVars    == <<k8sVars, awsVars, procVars, faults>>
pvsVars   == <<pvsPc, pvsOpt, pvsDestroyer, pvsErr>>
vars      == <<plVars, pvsVars, gms>>

\* --------------------------------------------------------------- utilities
Range(s) == {s[i] : i \in 1..Len(s)}
Min(S) == CHOOSE x \in S : \A y \in S : x <= y

OtherErr == "InternalError"   \* any error code that is not a not-found code
Call(name, region, a, b) ==
    [call |-> name, region |-> region, a |-> a, b |-> b]

\* Outcomes of a call: what the service answers for the present state, or
\* (while the fault budget lasts) an unexpected error.
Outcomes(answer) == {answer} \cup (IF faults < MaxFaults THEN {OtherErr} ELSE {})
FaultCount(err) == IF err = OtherErr THEN 1 ELSE 0

\* log.Fatal: os.Exit(1)
Fatal == "fatal"

\* An error the process logged without exiting is remembered in `seen`.
Survived(err, newPc) == IF err # "ok" /\ newPc # Fatal THEN seen \cup {err} ELSE seen

\* ------------------------------------------------------------ cloud wiring
\* The networking elements `endpointvpc add` sets up between a pair of VPCs.
PeeringOf(a, e) == [assoc |-> a, endpoint |-> e, status |-> "active"]
RoutesOf(a, e) ==
    {[rtb |-> RouteTableOf(a, k), dest |-> CidrOf(e)] : k \in 1..MaxRouteTables}
    \cup {[rtb |-> RouteTableOf(e, k), dest |-> CidrOf(a)] : k \in 1..MaxRouteTables}
IngressOf(a, e) ==
    IF RegionOf(a) = RegionOf(e)
    THEN {[sg |-> WorkerSGOf(a), kind |-> "sg", peer |-> DefaultSGOf(e)],
          [sg |-> DefaultSGOf(e), kind |-> "sg", peer |-> WorkerSGOf(a)]}
    ELSE {[sg |-> WorkerSGOf(a), kind |-> "cidr", peer |-> CidrOf(e)],
          [sg |-> DefaultSGOf(e), kind |-> "cidr", peer |-> CidrOf(a)]}

\* ------------------------------------------------------------------- Init
ZeroRemoveOptions ==
    [hiveConfig |-> EmptyHiveConfig, associatedVpcs |-> <<>>,
     endpointVpcId |-> NoId, endpointVpcRegion |-> "", endpointVpcIdx |-> 0]
ZeroRunLocals ==
    [endpointVPCDefaultSG |-> NoId, i |-> 0,
     associatedVpcCIDR |-> NoId, endpointVpcCIDR |-> NoId,
     associatedVpcWorkerSG |-> NoId,
     side |-> 0, page |-> 0, k |-> 0, peering |-> NoId]
ZeroDisableLocals == [hiveConfig |-> EmptyHiveConfig, items |-> <<>>, j |-> 0]
ZeroPvsOpt ==
    [baseDomain |-> "", clusterName |-> "", logLevel |-> "info",
     infraID |-> "", region |-> "", zone |-> ""]

\* No GenerateMachineSets call has been made.
ZeroGms ==
    [pc |-> "idle",
     cd |-> [ClusterMetadata |-> FALSE, PowerVS |-> FALSE],
     pool |-> [PowerVS |-> FALSE, Replicas |-> 0, Zones |-> <<>>],
     clientZones |-> <<>>, clientCalls |-> <<>>,
     machineSets |-> {}, ok |-> FALSE, err |-> ""]

InitPvs ==
    /\ pvsPc = "idle"
    /\ pvsOpt = ZeroPvsOpt
    /\ pvsDestroyer = "none"
    /\ pvsErr = ""

InitProc ==
    /\ cmd = "none"
    /\ pc = "idle"
    /\ o = ZeroRemoveOptions
    /\ loc = ZeroRunLocals
    /\ d = ZeroDisableLocals
    /\ calls = <<>>
    /\ lastErr = "ok"
    /\ seen = {}
    /\ faults = 0

Init ==
    /\ \E ne \in 0..MaxEndpointVpcs, na \in 0..MaxAssociatedVpcs, enabled \in BOOLEAN :
         LET inv == [n \in 1..ne |-> VpcEntry(EndpointVpc(n))]
             ass == [n \in 1..na |-> VpcEntry(AssociatedVpc(n))]
         IN /\ apiHiveConfig = IF enabled THEN HiveConfigOf(inv, ass) ELSE EmptyHiveConfig
            /\ \E wired \in BOOLEAN :
                 LET pairs == IF enabled /\ wired
                              THEN {<<AssociatedVpc(a), EndpointVpc(e)>> : a \in 1..na, e \in 1..ne}
                              ELSE {}
                 IN /\ peerings = {PeeringOf(p[1], p[2]) : p \in pairs}
                    /\ routes = UNION {RoutesOf(p[1], p[2]) : p \in pairs}
                    /\ ingress = UNION {IngressOf(p[1], p[2]) : p \in pairs}
    /\ apiSecrets = {HubSecret, UnlabelledSecret, OtherNSSecret}
    /\ hcAtStart = apiHiveConfig
    /\ InitProc
    /\ InitPvs
    /\ gms = ZeroGms


\* ======================================================================
\* hiveutil awsprivatelink endpointvpc remove vpc-id
\* ======================================================================

\* awsutils.FindVpcInInventory: index of the first inventory entry with the
\* given VPC id (1-based here), 0 when there is none (ok = false).
FindVpcInInventory(vpcId, inventory) ==
    LET S == {i \in 1..Len(inventory) : inventory[i].VPCID = vpcId}
    IN IF S = {} THEN 0 ELSE Min(S)

\* Complete: `endpointVpcIdx, ok := awsutils.FindVpcInInventory(...)` followed
\* by `if !ok { log.Fatalf }`; 0 stands for !ok.
\* Faulty variant: ok is ignored and the index of a VPC that was not found
\* is that of the first entry.
EndpointVpcIdx_OkIgnored(vpcId, inventory) ==
    IF FindVpcInInventory(vpcId, inventory) = 0 /\ Len(inventory) > 0 THEN 1
    ELSE FindVpcInInventory(vpcId, inventory)
EndpointVpcIdx(vpcId, inventory) == FindVpcInInventory(vpcId, inventory)

\* A process may be started when no other one is running.
NoProcessRunning == pc \in {"idle", "done", Fatal}

\* cobra Run of `remove vpc-id`: a fresh options struct; args[0] is the VPC id.
InvokeRemove(vpcId) ==
    /\ NoProcessRunning
    /\ cmd' = "remove"
    /\ pc' = "Complete"
    /\ o' = [ZeroRemoveOptions EXCEPT !.endpointVpcId = vpcId]
    /\ loc' = ZeroRunLocals
    /\ d' = ZeroDisableLocals
    /\ calls' = <<>>
    /\ lastErr' = "ok"
    /\ seen' = {}
    /\ hcAtStart' = apiHiveConfig
    /\ UNCHANGED <<k8sVars, awsVars, faults, pvsVars, gms>>

\* endpointVPCRemoveOptions.Complete
RemoveComplete ==
    /\ cmd = "remove" /\ pc = "Complete"
    /\ \E out \in {"ok"} \cup (IF faults < MaxFaults
                               THEN {"GetClient", "Get", "GetAWSClientsByRegion"} ELSE {}) :
         IF out = "GetClient"
         THEN /\ pc' = Fatal /\ faults' = faults + 1
              /\ UNCHANGED <<o, calls>>
         ELSE IF out = "Get"
         THEN /\ pc' = Fatal /\ faults' = faults + 1
              /\ calls' = Append(calls, Call("GetHiveConfig", "", NoId, NoId))
              /\ UNCHANGED o
         ELSE
           LET hc  == apiHiveConfig
               got == Append(calls, Call("GetHiveConfig", "", NoId, NoId))
           IN IF hc.awsPrivateLink = NilPrivateLink
              THEN /\ out = "ok"
                   /\ pc' = Fatal
                   /\ o' = [o EXCEPT !.hiveConfig = hc]
                   /\ calls' = got
                   /\ UNCHANGED faults
              ELSE
                LET pl  == hc.awsPrivateLink[1]
                    idx == EndpointVpcIdx(o.endpointVpcId, pl.endpointVPCInventory)
                IN IF idx = 0
                   THEN /\ out = "ok"
                        /\ pc' = Fatal
                        /\ o' = [o EXCEPT !.hiveConfig = hc,
                                          !.associatedVpcs = pl.associatedVPCs]
                        /\ calls' = got
                        /\ UNCHANGED faults
                   ELSE /\ o' = [o EXCEPT !.hiveConfig = hc,
                                          !.associatedVpcs = pl.associatedVPCs,
                                          !.endpointVpcIdx = idx,
                                          !.endpointVpcRegion = pl.endpointVPCInventory[idx].Region]
                        /\ calls' = got
                        /\ IF out = "GetAWSClientsByRegion"
                           THEN pc' = Fatal /\ faults' = faults + 1
                           ELSE pc' = "GetDefaultSGOfVpc" /\ UNCHANGED faults
    /\ lastErr' = IF pc' = Fatal /\ faults' > faults THEN OtherErr ELSE "ok"
    /\ UNCHANGED <<k8sVars, awsVars, loc, d, cmd, seen, hcAtStart, pvsVars, gms>>

\* The associated VPC of the current loop iteration (Run, line 128).
Assoc == o.associatedVpcs[loc.i]

\* Entering iteration i of `for _, associatedVpc := range o.associatedVpcs`,
\* or leaving the loop for removeEndpointVpcFromHiveConfig.
\* Faulty variant: an early return when there is no associated VPC.
LoopPc_ReturnWhenEmpty(i) ==
    IF i <= Len(o.associatedVpcs) THEN "GetAssociatedVpcCIDR"
    ELSE IF Len(o.associatedVpcs) = 0 THEN "done"
    ELSE "removeEndpointVpcFromHiveConfig"
LoopPc(i) ==
    IF i <= Len(o.associatedVpcs) THEN "GetAssociatedVpcCIDR"
                                  ELSE "removeEndpointVpcFromHiveConfig"
LoopLocals(i) ==
    [ZeroRunLocals EXCEPT !.endpointVPCDefaultSG = loc.endpointVPCDefaultSG, !.i = i]

\* One SDK call of the run: log it, count an injected fault, move on.
Step(call, err, newPc, newLoc) ==
    /\ calls' = Append(calls, call)
    /\ lastErr' = err
    /\ seen' = Survived(err, newPc)
    /\ faults' = faults + FaultCount(err)
    /\ pc' = newPc
    /\ loc' = newLoc
    /\ UNCHANGED <<k8sVars, o, d, cmd, hcAtStart, pvsVars, gms>>

\* Run: awsutils.GetDefaultSGOfVpc(o.endpointVpcClients, o.endpointVpcId)
GetDefaultSGOfVpc ==
    /\ cmd = "remove" /\ pc = "GetDefaultSGOfVpc"
    /\ \E err \in Outcomes("ok") :
         Step(Call("GetDefaultSGOfVpc", o.endpointVpcRegion, o.endpointVpcId, NoId), err,
              IF err = "ok" THEN LoopPc(1) ELSE Fatal,
              IF err = "ok"
              THEN [LoopLocals(1) EXCEPT !.endpointVPCDefaultSG = DefaultSGOf(o.endpointVpcId)]
              ELSE loc)
    /\ UNCHANGED awsVars

\* Run: awsutils.GetCIDRFromVpcId(associatedVpcClients, associatedVpcId)
GetAssociatedVpcCIDR ==
    /\ cmd = "remove" /\ pc = "GetAssociatedVpcCIDR"
    /\ \E err \in Outcomes("ok") :
         Step(Call("GetCIDRFromVpcId", Assoc.Region, Assoc.VPCID, NoId), err,
              IF err = "ok" THEN "GetEndpointVpcCIDR" ELSE Fatal,
              IF err = "ok" THEN [loc EXCEPT !.associatedVpcCIDR = CidrOf(Assoc.VPCID)] ELSE loc)
    /\ UNCHANGED awsVars

\* Run: awsutils.GetCIDRFromVpcId(o.endpointVpcClients, o.endpointVpcId)
GetEndpointVpcCIDR ==
    /\ cmd = "remove" /\ pc = "GetEndpointVpcCIDR"
    /\ \E err \in Outcomes("ok") :
         Step(Call("GetCIDRFromVpcId", o.endpointVpcRegion, o.endpointVpcId, NoId), err,
              IF err = "ok" THEN "DescribeVpcPeeringConnections" ELSE Fatal,
              IF err = "ok" THEN [loc EXCEPT !.endpointVpcCIDR = CidrOf(o.endpointVpcId)] ELSE loc)
    /\ UNCHANGED awsVars


\* ---------------------------------------------- deleteVpcPeeringConnection
\* DescribeVpcPeeringConnections with the requester/accepter/status filters:
\* the active connections between the two VPCs.
\* Faulty variant: the first VPC must be the requester, the second the
\* accepter.
ActivePeerings_RolesFixed(vpcId1, vpcId2) ==
    {p \in peerings : /\ p.endpoint = vpcId1 /\ p.assoc = vpcId2
                      /\ p.status = "active"}
ActivePeerings(vpcId1, vpcId2) ==
    {p \in peerings : /\ {p.assoc, p.endpoint} \subseteq {vpcId1, vpcId2}
                      /\ p.status = "active"}
PeeringId(p) == Id("pcx", "associated", p.assoc.n, p.endpoint.n)

\* The two calls of deleteRouteFromRouteTables in Run, in the order written:
\* the associated VPC's private route tables, then the endpoint subnets'.
\* Faulty variant: the two route deletions in the opposite order.
RouteSides_Swapped == <<"endpoint", "associated">>
RouteSides == <<"associated", "endpoint">>
FirstRouteSide == 1
EnterRoutes(side) == [loc EXCEPT !.side = side, !.page = 1, !.k = 0, !.peering = NoId]

DescribeVpcPeeringConnections ==
    /\ cmd = "remove" /\ pc = "DescribeVpcPeeringConnections"
    /\ \E err \in Outcomes("ok") :
         LET found == ActivePeerings(Assoc.VPCID, o.endpointVpcId)
             call  == Call("DescribeVpcPeeringConnections", Assoc.Region,
                           Assoc.VPCID, o.endpointVpcId)
         IN IF err # "ok"
            THEN Step(call, err, Fatal, loc)
            ELSE IF found = {}
            THEN Step(call, err, "DescribeRouteTablesPages", EnterRoutes(FirstRouteSide))
            ELSE \E p \in found :
                   Step(call, err, "DeleteVpcPeeringConnection",
                        [loc EXCEPT !.peering = PeeringId(p)])
    /\ UNCHANGED awsVars

DeleteVpcPeeringConnection ==
    /\ cmd = "remove" /\ pc = "DeleteVpcPeeringConnection"
    /\ \E err \in Outcomes("ok") :
         /\ Step(Call("DeleteVpcPeeringConnection", Assoc.Region, loc.peering, NoId), err,
                 IF err = "ok" THEN "WaitUntilVpcPeeringConnectionDeleted" ELSE Fatal, loc)
         /\ peerings' = IF err = "ok"
                        THEN {IF PeeringId(p) = loc.peering
                              THEN [p EXCEPT !.status = "deleting"] ELSE p : p \in peerings}
                        ELSE peerings
    /\ UNCHANGED <<routes, ingress>>

\* AWS finishes a deletion that was initiated.
CloudCompletesPeeringDeletion ==
    /\ \E p \in peerings :
         /\ p.status = "deleting"
         /\ peerings' = peerings \ {p}
    /\ UNCHANGED <<k8sVars, routes, ingress, procVars, faults, pvsVars, gms>>

\* The waiter returns nil once the connection is deleted, an error when it
\* gives up.
WaitUntilVpcPeeringConnectionDeleted ==
    /\ cmd = "remove" /\ pc = "WaitUntilVpcPeeringConnectionDeleted"
    /\ LET gone == \A p \in peerings : PeeringId(p) # loc.peering
           call == Call("WaitUntilVpcPeeringConnectionDeleted", Assoc.Region,
                        loc.peering, NoId)
       IN \/ /\ gone
             /\ Step(call, "ok", "DescribeRouteTablesPages", EnterRoutes(FirstRouteSide))
          \/ /\ faults < MaxFaults
             /\ Step(call, OtherErr, Fatal, loc)
    /\ UNCHANGED awsVars

\* ---------------------------------------------- deleteRouteFromRouteTables
\* The two calls of Run: (vpcClients, vpcId, peerCIDR) per side.
RouteVpc ==
    IF RouteSides[loc.side] = "associated" THEN Assoc.VPCID ELSE o.endpointVpcId
RouteRegion ==
    IF RouteSides[loc.side] = "associated" THEN Assoc.Region ELSE o.endpointVpcRegion
\* Faulty variant: each side is given its own VPC's CIDR instead of the peer's.
RoutePeerCIDR_Own ==
    IF RouteSides[loc.side] = "associated" THEN loc.associatedVpcCIDR ELSE loc.endpointVpcCIDR
RoutePeerCIDR ==
    IF RouteSides[loc.side] = "associated" THEN loc.endpointVpcCIDR ELSE loc.associatedVpcCIDR

\* DescribeRouteTablesPages: the matching route tables come in pages.
NumPages == IF MaxRouteTables = 0 THEN 1 ELSE (MaxRouteTables + PageSize - 1) \div PageSize
PageOf(vpc, page) ==
    LET first == (page - 1) * PageSize
        n == IF MaxRouteTables - first >= PageSize THEN PageSize
             ELSE IF MaxRouteTables > first THEN MaxRouteTables - first ELSE 0
    IN [j \in 1..n |-> RouteTableOf(vpc, first + j)]
LastPage(page) == page >= NumPages

\* The callback's return value: `return !lastPage`.
\* Faulty variant: the callback returns false and paging stops after the
\* first page.
ContinuePaging_Stop(lastPage) == FALSE
ContinuePaging(lastPage) == ~lastPage

\* What follows deleteRouteFromRouteTables returning nil, per side.
AfterRoutesPc(side) ==
    IF side < Len(RouteSides) THEN "DescribeRouteTablesPages" ELSE "GetWorkerSGFromVpcId"
AfterRoutesLocals(side) ==
    IF side < Len(RouteSides) THEN EnterRoutes(side + 1)
    ELSE [loc EXCEPT !.side = 0, !.page = 0, !.k = 0]

\* End of the callback for the current page.
EndOfPagePc ==
    IF ContinuePaging(LastPage(loc.page)) /\ ~LastPage(loc.page)
    THEN "DescribeRouteTablesPages" ELSE AfterRoutesPc(loc.side)
EndOfPageLocals ==
    IF ContinuePaging(LastPage(loc.page)) /\ ~LastPage(loc.page)
    THEN [loc EXCEPT !.page = loc.page + 1, !.k = 0] ELSE AfterRoutesLocals(loc.side)

\* The SDK fetches the next page and hands it to the callback.
DescribeRouteTablesPages ==
    /\ cmd = "remove" /\ pc = "DescribeRouteTablesPages"
    /\ \E err \in Outcomes("ok") :
         LET call == Call("DescribeRouteTablesPages", RouteRegion, RouteVpc, NoId)
         IN IF err # "ok"
            THEN Step(call, err, Fatal, loc)
            ELSE IF Len(PageOf(RouteVpc, loc.page)) = 0
            THEN Step(call, err, EndOfPagePc, EndOfPageLocals)
            ELSE Step(call, err, "DeleteRoute", [loc EXCEPT !.k = 1])
    /\ UNCHANGED awsVars

\* `case ok && aerr.Code() == "InvalidRoute.NotFound"`: warn and proceed.
\* Faulty variant: every DeleteRoute error is only logged.
RouteErrTolerated_Any(code) == TRUE
\* Faulty variant: InvalidRoute.NotFound is not recognised.
RouteErrTolerated_Never(code) == FALSE
RouteErrTolerated(code) == code = "InvalidRoute.NotFound"

DeleteRoute ==
    /\ cmd = "remove" /\ pc = "DeleteRoute"
    /\ LET page  == PageOf(RouteVpc, loc.page)
           route == [rtb |-> page[loc.k], dest |-> RoutePeerCIDR]
           answer == IF route \in routes THEN "ok" ELSE "InvalidRoute.NotFound"
       IN \E err \in Outcomes(answer) :
            /\ routes' = IF err = "ok" THEN routes \ {route} ELSE routes
            /\ IF err = "ok" \/ RouteErrTolerated(err)
               THEN IF loc.k < Len(page)
                    THEN Step(Call("DeleteRoute", RouteRegion, route.rtb, route.dest), err,
                              "DeleteRoute", [loc EXCEPT !.k = loc.k + 1])
                    ELSE Step(Call("DeleteRoute", RouteRegion, route.rtb, route.dest), err,
                              EndOfPagePc, EndOfPageLocals)
               ELSE Step(Call("DeleteRoute", RouteRegion, route.rtb, route.dest), err,
                         Fatal, loc)
    /\ UNCHANGED <<peerings, ingress>>


\* ------------------------------------------------------- security groups
\* Run: awsutils.GetWorkerSGFromVpcId(associatedVpcClients, associatedVpcId)
GetWorkerSGFromVpcId ==
    /\ cmd = "remove" /\ pc = "GetWorkerSGFromVpcId"
    /\ \E err \in Outcomes("ok") :
         Step(Call("GetWorkerSGFromVpcId", Assoc.Region, Assoc.VPCID, NoId), err,
              IF err = "ok" THEN "RevokeIngressOfWorkerSG" ELSE Fatal,
              IF err = "ok" THEN [loc EXCEPT !.associatedVpcWorkerSG = WorkerSGOf(Assoc.VPCID)]
              ELSE loc)
    /\ UNCHANGED awsVars

\* `case associatedVpcRegion == o.endpointVpcRegion` selects revocation by
\* the peer's security group, `default` by the peer's CIDR block.
\* Faulty variant: revocation by peer SG whatever the regions.
RevokeKind_AlwaysSG(associatedVpcRegion, endpointVpcRegion) == "sg"
RevokeKind(associatedVpcRegion, endpointVpcRegion) ==
    IF associatedVpcRegion = endpointVpcRegion THEN "sg" ELSE "cidr"
RevokeCallName(kind) ==
    IF kind = "sg" THEN "RevokeAllIngressFromSG" ELSE "RevokeAllIngressFromCIDR"

\* `case ok && aerr.Code() == "InvalidPermission.NotFound"`: warn and proceed.
\* Faulty variant: not-found on a revoke is fatal like any other error.
IngressErrTolerated_None(code) == FALSE
IngressErrTolerated(code) == code = "InvalidPermission.NotFound"

\* awsutils.RevokeAllIngressFromSG / RevokeAllIngressFromCIDR on one SG,
\* followed by the caller's error switch.
Revoke(region, sg, kind, peer, nextPc, nextLoc) ==
    LET rule   == [sg |-> sg, kind |-> kind, peer |-> peer]
        answer == IF rule \in ingress THEN "ok" ELSE "InvalidPermission.NotFound"
    IN \E err \in Outcomes(answer) :
         /\ ingress' = IF err = "ok" THEN ingress \ {rule} ELSE ingress
         /\ IF err = "ok" \/ IngressErrTolerated(err)
            THEN Step(Call(RevokeCallName(kind), region, sg, peer), err, nextPc, nextLoc)
            ELSE Step(Call(RevokeCallName(kind), region, sg, peer), err, Fatal, loc)

\* Revoke access from the endpoint VPC to the associated VPC's worker SG.
RevokeIngressOfWorkerSG ==
    /\ cmd = "remove" /\ pc = "RevokeIngressOfWorkerSG"
    /\ LET kind == RevokeKind(Assoc.Region, o.endpointVpcRegion)
       IN Revoke(Assoc.Region, loc.associatedVpcWorkerSG, kind,
                 IF kind = "sg" THEN loc.endpointVPCDefaultSG ELSE loc.endpointVpcCIDR,
                 "RevokeIngressOfDefaultSG", loc)
    /\ UNCHANGED <<peerings, routes>>

\* Revoke access from the associated VPC to the endpoint VPC's default SG.
RevokeIngressOfDefaultSG ==
    /\ cmd = "remove" /\ pc = "RevokeIngressOfDefaultSG"
    /\ LET kind == RevokeKind(Assoc.Region, o.endpointVpcRegion)
       IN Revoke(o.endpointVpcRegion, loc.endpointVPCDefaultSG, kind,
                 IF kind = "sg" THEN loc.associatedVpcWorkerSG ELSE loc.associatedVpcCIDR,
                 LoopPc(loc.i + 1), LoopLocals(loc.i + 1))
    /\ UNCHANGED <<peerings, routes>>

\* ------------------------------------------ removeEndpointVpcFromHiveConfig
\* inventory[idx] = inventory[len-1]; inventory = inventory[:len-1]
\* Faulty variant: the slice is shortened without moving the last entry.
RemoveFromInventory_DropLast(inventory, idx) ==
    SubSeq(inventory, 1, Len(inventory) - 1)
RemoveFromInventory(inventory, idx) ==
    SubSeq([inventory EXCEPT ![idx] = inventory[Len(inventory)]], 1, Len(inventory) - 1)

removeEndpointVpcFromHiveConfig ==
    /\ cmd = "remove" /\ pc = "removeEndpointVpcFromHiveConfig"
    /\ LET pl == o.hiveConfig.awsPrivateLink[1]
           hc == HiveConfigOf(RemoveFromInventory(pl.endpointVPCInventory, o.endpointVpcIdx),
                              pl.associatedVPCs)
       IN /\ o' = [o EXCEPT !.hiveConfig = hc]
          /\ \E err \in Outcomes("ok") :
               /\ calls' = Append(calls, Call("UpdateHiveConfig", "", NoId, NoId))
               /\ lastErr' = err
               /\ faults' = faults + FaultCount(err)
               /\ apiHiveConfig' = IF err = "ok" THEN hc ELSE apiHiveConfig
               /\ pc' = IF err = "ok" THEN "done" ELSE Fatal
    /\ UNCHANGED <<apiSecrets, awsVars, loc, d, cmd, seen, hcAtStart, pvsVars, gms>>


\* ======================================================================
\* hiveutil awsprivatelink disable
\* ======================================================================

InvokeDisable ==
    /\ NoProcessRunning
    /\ cmd' = "disable"
    /\ pc' = "Disable.Complete"
    /\ o' = ZeroRemoveOptions
    /\ loc' = ZeroRunLocals
    /\ d' = ZeroDisableLocals
    /\ calls' = <<>>
    /\ lastErr' = "ok"
    /\ seen' = {}
    /\ hcAtStart' = apiHiveConfig
    /\ UNCHANGED <<k8sVars, awsVars, faults, pvsVars, gms>>

\* One API call of the disable run.
DisableStep(call, err, newPc, newD) ==
    /\ calls' = Append(calls, call)
    /\ lastErr' = err
    /\ seen' = Survived(err, newPc)
    /\ faults' = faults + FaultCount(err)
    /\ pc' = newPc
    /\ d' = newD
    /\ UNCHANGED <<awsVars, o, loc, cmd, hcAtStart, pvsVars, gms>>

\* disableOptions.Complete: hiveutils.GetClient()
DisableComplete ==
    /\ cmd = "disable" /\ pc = "Disable.Complete"
    /\ \E err \in Outcomes("ok") :
         /\ pc' = IF err = "ok" THEN "Disable.GetHiveConfig" ELSE Fatal
         /\ faults' = faults + FaultCount(err)
         /\ lastErr' = err
    /\ UNCHANGED <<k8sVars, awsVars, o, loc, d, cmd, calls, seen, hcAtStart, pvsVars, gms>>

\* The guard of Run: at least one endpoint VPC and one associated VPC.
\* Faulty variant: a single endpoint VPC does not block the command.
DisableRefused_OffByOne(hc) ==
    /\ hc.awsPrivateLink # NilPrivateLink
    /\ Len(hc.awsPrivateLink[1].endpointVPCInventory) > 1
    /\ Len(hc.awsPrivateLink[1].associatedVPCs) > 0
\* Faulty variant: the command is refused whenever PrivateLink is enabled.
DisableRefused_WheneverEnabled(hc) == hc.awsPrivateLink # NilPrivateLink
DisableRefused(hc) ==
    /\ hc.awsPrivateLink # NilPrivateLink
    /\ Len(hc.awsPrivateLink[1].endpointVPCInventory) > 0
    /\ Len(hc.awsPrivateLink[1].associatedVPCs) > 0

\* Run: Get HiveConfig/hive, then the refusal check.
DisableGetHiveConfig ==
    /\ cmd = "disable" /\ pc = "Disable.GetHiveConfig"
    /\ \E err \in Outcomes("ok") :
         LET call == Call("GetHiveConfig", "", NoId, NoId)
         IN IF err # "ok"
            THEN DisableStep(call, err, Fatal, d)
            ELSE DisableStep(call, err,
                             IF DisableRefused(apiHiveConfig) THEN Fatal ELSE "Disable.ListSecrets",
                             [d EXCEPT !.hiveConfig = apiHiveConfig])
    /\ UNCHANGED k8sVars

\* client.List with MatchingFields{metadata.name}, MatchingLabels, InNamespace
MatchingSecrets ==
    {s \in apiSecrets : /\ s.name = PrivateLinkHubAcctCredsName
                        /\ s.label
                        /\ s.namespace = HiveNS}

\* The position a failed List or Delete of a Secret leaves the run at:
\* log.WithError(err).Error(...) logs and returns.
AfterSecretError(next) == next

DeleteLoopPc(items, j) ==
    IF j <= Len(items) THEN "Disable.DeleteSecret" ELSE "Disable.UpdateHiveConfig"

DisableListSecrets ==
    /\ cmd = "disable" /\ pc = "Disable.ListSecrets"
    /\ \E err \in Outcomes("ok") :
         LET call == Call("ListSecrets", "", NoId, NoId)
         IN IF err # "ok"
            THEN DisableStep(call, err, AfterSecretError(DeleteLoopPc(<<>>, 1)),
                             [d EXCEPT !.items = <<>>, !.j = 1])
            ELSE \E items \in [1..Cardinality(MatchingSecrets) -> MatchingSecrets] :
                   /\ Range(items) = MatchingSecrets
                   /\ DisableStep(call, err, DeleteLoopPc(items, 1),
                                  [d EXCEPT !.items = items, !.j = 1])
    /\ UNCHANGED k8sVars

DisableDeleteSecret ==
    /\ cmd = "disable" /\ pc = "Disable.DeleteSecret"
    /\ LET secret == d.items[d.j]
       IN \E err \in Outcomes("ok") :
            /\ apiSecrets' = IF err = "ok" THEN apiSecrets \ {secret} ELSE apiSecrets
            /\ DisableStep(Call("DeleteSecret", "", NoId, NoId), err,
                           IF err = "ok" THEN DeleteLoopPc(d.items, d.j + 1)
                           ELSE AfterSecretError(DeleteLoopPc(d.items, d.j + 1)),
                           [d EXCEPT !.j = d.j + 1])
    /\ UNCHANGED apiHiveConfig

\* hiveConfig.Spec.AWSPrivateLink = nil; Update
DisableUpdateHiveConfig ==
    /\ cmd = "disable" /\ pc = "Disable.UpdateHiveConfig"
    /\ LET hc == [d.hiveConfig EXCEPT !.awsPrivateLink = NilPrivateLink]
       IN \E err \in Outcomes("ok") :
            /\ apiHiveConfig' = IF err = "ok" THEN hc ELSE apiHiveConfig
            /\ DisableStep(Call("UpdateHiveConfig", "", NoId, NoId), err,
                           IF err = "ok" THEN "done" ELSE Fatal,
                           [d EXCEPT !.hiveConfig = hc])
    /\ UNCHANGED apiSecrets

\* ======================================================================
\* The AWS PrivateLink commands against one API server and AWS account
\* ======================================================================
RemoveRun ==
    \/ GetDefaultSGOfVpc
    \/ GetAssociatedVpcCIDR
    \/ GetEndpointVpcCIDR
    \/ DescribeVpcPeeringConnections
    \/ DeleteVpcPeeringConnection
    \/ WaitUntilVpcPeeringConnectionDeleted
    \/ DescribeRouteTablesPages
    \/ DeleteRoute
    \/ GetWorkerSGFromVpcId
    \/ RevokeIngressOfWorkerSG
    \/ RevokeIngressOfDefaultSG
    \/ removeEndpointVpcFromHiveConfig

DisableRun ==
    \/ DisableGetHiveConfig
    \/ DisableListSecrets
    \/ DisableDeleteSecret
    \/ DisableUpdateHiveConfig

Next ==
    \/ \E vpcId \in EndpointVpcIds : InvokeRemove(vpcId)
    \/ RemoveComplete
    \/ RemoveRun
    \/ InvokeDisable
    \/ DisableComplete
    \/ DisableRun
    \/ CloudCompletesPeeringDeletion

Spec == Init /\ [][Next]_vars


\* ======================================================================
\* hiveutil deprovision powervs INFRAID --region --zone --base-domain
\*                                      --cluster-name
\* ======================================================================
FlagValues(set) == {"", set}
LogLevels == {"info", "bogus"}

\* cobra parses the flags into a fresh options struct and calls Run.
PvsInvoke(region, zone, baseDomain, clusterName, logLevel) ==
    /\ pvsPc \in {"idle", "done", Fatal}
    /\ pvsPc' = "Complete"
    /\ pvsOpt' = [ZeroPvsOpt EXCEPT !.region = region, !.zone = zone,
                                    !.baseDomain = baseDomain,
                                    !.clusterName = clusterName,
                                    !.logLevel = logLevel]
    /\ pvsDestroyer' = "none"
    /\ pvsErr' = ""
    /\ UNCHANGED <<plVars, gms>>

\* powerVSDeprovisionOptions.Complete: args[0], utils.GetClient
PvsComplete ==
    /\ pvsPc = "Complete"
    /\ \E err \in {"", "failed to get client"} :
         /\ pvsOpt' = [pvsOpt EXCEPT !.infraID = "infra-id"]
         /\ pvsErr' = err
         /\ pvsPc' = IF err = "" THEN "Validate" ELSE Fatal
    /\ UNCHANGED <<pvsDestroyer, plVars, gms>>

\* powerVSDeprovisionOptions.Validate: the error returned, "" for nil.
\* Faulty variant: --zone is not checked.
Validate_ZoneUnchecked(opt) ==
    IF opt.region = "" THEN "no --region provided, cannot proceed"
    ELSE IF opt.baseDomain = "" THEN "no --base-domain provided, cannot proceed"
    ELSE IF opt.clusterName = "" THEN "no --cluster-name provided, cannot proceed"
    ELSE ""
Validate(opt) ==
    IF opt.region = "" THEN "no --region provided, cannot proceed"
    ELSE IF opt.zone = "" THEN "no --zone provided, cannot proceed"
    ELSE IF opt.baseDomain = "" THEN "no --base-domain provided, cannot proceed"
    ELSE IF opt.clusterName = "" THEN "no --cluster-name provided, cannot proceed"
    ELSE ""

PvsValidate ==
    /\ pvsPc = "Validate"
    /\ pvsErr' = Validate(pvsOpt)
    /\ pvsPc' = IF Validate(pvsOpt) = "" THEN "Run.NewLogger" ELSE Fatal
    /\ UNCHANGED <<pvsOpt, pvsDestroyer, plVars, gms>>

\* powerVSDeprovisionOptions.Run: utils.NewLogger(o.logLevel)
PvsNewLogger ==
    /\ pvsPc = "Run.NewLogger"
    /\ pvsErr' = IF pvsOpt.logLevel = "info" THEN "" ELSE "invalid log level"
    /\ pvsPc' = IF pvsOpt.logLevel = "info" THEN "Run.New" ELSE Fatal
    /\ UNCHANGED <<pvsOpt, pvsDestroyer, plVars, gms>>

\* Run: powervs.New(logger, metadata)
PvsNewDestroyer ==
    /\ pvsPc = "Run.New"
    /\ \E err \in {"", "failed to create destroyer"} :
         /\ pvsErr' = err
         /\ pvsDestroyer' = IF err = "" THEN "constructed" ELSE pvsDestroyer
         /\ pvsPc' = IF err = "" THEN "Run.destroyer.Run" ELSE Fatal
    /\ UNCHANGED <<pvsOpt, plVars, gms>>

\* Run: destroyer.Run()
PvsDestroyerRun ==
    /\ pvsPc = "Run.destroyer.Run"
    /\ \E err \in {"", "destroy failed"} :
         /\ pvsErr' = err
         /\ pvsDestroyer' = "ran"
         /\ pvsPc' = IF err = "" THEN "done" ELSE Fatal
    /\ UNCHANGED <<pvsOpt, plVars, gms>>

NextPowerVS ==
    \/ \E region \in FlagValues("us-east"), zone \in FlagValues("us-east-1"),
          baseDomain \in FlagValues("example.com"), clusterName \in FlagValues("c1"),
          logLevel \in LogLevels :
         PvsInvoke(region, zone, baseDomain, clusterName, logLevel)
    \/ PvsComplete
    \/ PvsValidate
    \/ PvsNewLogger
    \/ PvsNewDestroyer
    \/ PvsDestroyerRun

SpecPowerVS == Init /\ [][NextPowerVS]_vars


\* ======================================================================
\* machinepool controller: PowerVSActuator.GenerateMachineSets
\* ======================================================================
testInfraID == "test-infra-id"
testRegion == "test-region"
workerRole == "worker"

\* A zone "<region>-<suffix>".
Zone(suffix) == [region |-> testRegion, suffix |-> suffix]
SpecifiedSuffixes == <<"A", "B", "C", "D">>
RegionSuffixes == <<"1", "2", "3", "4">>
\* The lists of zones a MachinePool can specify / the PowerVS client can
\* return for the region: the first n zones, n = 0 .. MaxZones.
SpecifiedZoneLists == {[i \in 1..n |-> Zone(SpecifiedSuffixes[i])] : n \in 0..MaxZones}
RegionZoneLists == {[i \in 1..n |-> Zone(RegionSuffixes[i])] : n \in 0..MaxZones}

\* A MachineSet, reduced to its name and its replica count.
MachineSet(infraID, poolName, suffix, replicas) ==
    [name |-> [infraID |-> infraID, pool |-> poolName, suffix |-> suffix],
     replicas |-> replicas]

\* The installer's machine sets for a pool spread over the zones zs: zone i
\* gets total \div n replicas, the first total % n zones one more.
MachineSetsOver(infraID, poolName, total, zs) ==
    {MachineSet(infraID, poolName, zs[i].suffix,
                (total \div Len(zs)) + (IF i - 1 < total % Len(zs) THEN 1 ELSE 0))
       : i \in 1..Len(zs)}

\* installpowervs.MachineSets(infraID, ic, computePool, role, userData) is
\* code of the installer, outside this repository: what it returns for the
\* arguments it is given is left open.  It either fails or returns machine
\* sets for the compute pool: a single one for the whole pool, or one per
\* zone of some list of zones.
InstallerOutcomes(infraID, ic, computePool) ==
    {[machineSets |-> {}, err |-> "installer error"]}
    \cup {[machineSets |-> {MachineSet(infraID, computePool.Name, "", computePool.Replicas)},
           err |-> ""]}
    \cup {[machineSets |-> MachineSetsOver(infraID, computePool.Name, computePool.Replicas, zs),
           err |-> ""]
            : zs \in (SpecifiedZoneLists \cup RegionZoneLists \cup {<<ic.Zone>>}) \ {<<>>}}

\* The machinepool controller calls the actuator with a ClusterDeployment
\* and a MachinePool; the actuator holds a PowerVS client, whose answer to a
\* zones-of-region query would be clientZones.
GmsInvoke(cd, pool, clientZones) ==
    /\ gms.pc \in {"idle", "done"}
    /\ gms' = [ZeroGms EXCEPT !.pc = "GenerateMachineSets", !.cd = cd, !.pool = pool,
                              !.clientZones = clientZones]
    /\ UNCHANGED <<plVars, pvsVars>>

\* PowerVSActuator.GenerateMachineSets: three checks of its arguments, the
\* compute pool and the faked install config, then the installer's
\* MachineSets.  a.powervsClient is not used and pool.Spec.Platform.PowerVS
\* is read for MemoryGiB, ProcType, Processors and SysType only.
GenerateMachineSets ==
    /\ gms.pc = "GenerateMachineSets"
    /\ IF ~gms.cd.ClusterMetadata
       THEN gms' = [gms EXCEPT !.pc = "done", !.ok = FALSE,
                               !.err = "ClusterDeployment does not have cluster metadata"]
       ELSE IF ~gms.cd.PowerVS
       THEN gms' = [gms EXCEPT !.pc = "done", !.ok = FALSE,
                               !.err = "ClusterDeployment is not for PowerVS"]
       ELSE IF ~gms.pool.PowerVS
       THEN gms' = [gms EXCEPT !.pc = "done", !.ok = FALSE,
                               !.err = "MachinePool is not for PowerVS"]
       ELSE LET computePool == [Name |-> workerRole, Replicas |-> gms.pool.Replicas]
                ic == [Region |-> testRegion, Zone |-> Zone("1")]
            IN \E out \in InstallerOutcomes(testInfraID, ic, computePool) :
                 gms' = [gms EXCEPT !.pc = "done",
                                    !.machineSets = out.machineSets,
                                    !.ok = (out.err = ""),
                                    !.err = IF out.err = "" THEN ""
                                            ELSE "failed to generate machinesets"]
    /\ UNCHANGED <<plVars, pvsVars>>

NextMachineSets ==
    \/ \E metadata \in BOOLEAN, cdPowerVS \in BOOLEAN, poolPowerVS \in BOOLEAN,
          replicas \in 1..MaxReplicas,
          zones \in SpecifiedZoneLists, clientZones \in RegionZoneLists :
         GmsInvoke([ClusterMetadata |-> metadata, PowerVS |-> cdPowerVS],
                   [PowerVS |-> poolPowerVS, Replicas |-> replicas, Zones |-> zones],
                   clientZones)
    \/ GenerateMachineSets

SpecMachineSets == Init /\ [][NextMachineSets]_vars


\* ======================================================================
\* Properties
\* ======================================================================
LastCall == calls[Len(calls)]
CallNames == {calls[j].call : j \in 1..Len(calls)}
ApiInventory ==
    IF apiHiveConfig.awsPrivateLink = NilPrivateLink THEN <<>>
    ELSE apiHiveConfig.awsPrivateLink[1].endpointVPCInventory
StartInventory ==
    IF hcAtStart.awsPrivateLink = NilPrivateLink THEN <<>>
    ELSE hcAtStart.awsPrivateLink[1].endpointVPCInventory
InventoryIds(inventory) == {inventory[j].VPCID : j \in 1..Len(inventory)}

\* The `remove` process got past Complete.
RemoveRunning == cmd = "remove" /\ o.endpointVpcIdx > 0

\* The teardown step a call belongs to: 1 peering connection, 2 routes of
\* the associated VPC, 3 routes of the endpoint subnets, 4 SG ingress.
TeardownStep(c) ==
    IF c.call = "DeleteVpcPeeringConnection" THEN 1
    ELSE IF c.call = "DeleteRoute" /\ c.a.role = "associated" THEN 2
    ELSE IF c.call = "DeleteRoute" THEN 3
    ELSE IF c.call \in {"RevokeAllIngressFromSG", "RevokeAllIngressFromCIDR"} THEN 4
    ELSE 0
\* The position in o.associatedVpcs of the associated VPC a teardown call is for.
AssocIndexOf(c) ==
    LET n == IF c.a.role = "associated" THEN c.a.n ELSE c.b.n
    IN CHOOSE idx \in 1..Len(o.associatedVpcs) : o.associatedVpcs[idx].VPCID.n = n
TeardownCalls ==
    LET IsTeardown(c) == TeardownStep(c) > 0 IN SelectSeq(calls, IsTeardown)
StepCalls(idx, step) ==
    {j \in 1..Len(calls) : TeardownStep(calls[j]) = step /\ AssocIndexOf(calls[j]) = idx}
\* The sequence of an associated VPC has finished: every matching route
\* table of both VPCs was visited and both revocations were attempted.
SequenceFinished(idx) ==
    /\ Cardinality(StepCalls(idx, 2)) = MaxRouteTables
    /\ Cardinality(StepCalls(idx, 3)) = MaxRouteTables
    /\ Cardinality(StepCalls(idx, 4)) = 2

\* C1: for each associated VPC the teardown calls are issued in the order
\* peering connection, routes of the associated VPC, routes of the endpoint
\* subnets, SG ingress, one associated VPC after the other (each teardown
\* call is followed by one of the same or a later step, or of a later
\* associated VPC); and the HiveConfig update is the last call, issued after
\* the sequence has finished for every associated VPC.
C1_TeardownOrder ==
    RemoveRunning =>
      /\ LET t    == TeardownCalls
             idx  == [i \in 1..Len(t) |-> AssocIndexOf(t[i])]
             step == [i \in 1..Len(t) |-> TeardownStep(t[i])]
         IN \A i \in 1..(Len(t) - 1) :
              \/ idx[i] < idx[i + 1]
              \/ idx[i] = idx[i + 1] /\ step[i] <= step[i + 1]
      /\ \A j \in 1..Len(calls) :
           calls[j].call = "UpdateHiveConfig" =>
              /\ j = Len(calls)
              /\ \A idx \in 1..Len(o.associatedVpcs) : SequenceFinished(idx)
C1_Witness ==
    /\ RemoveRunning /\ pc = "done"
    /\ Len(o.associatedVpcs) = 2
    /\ StepCalls(1, 1) # {} /\ StepCalls(2, 1) # {}
    /\ LastCall.call = "UpdateHiveConfig"

\* C2: an unexpected error of any call of `remove` ends the process at that
\* call; the exited process issues no further call and changes nothing, the
\* HiveConfig on the API server is the one the run started with and still
\* lists the endpoint VPC, and no deleted cloud resource comes back.
C2_AbortState ==
    cmd = "remove" =>
      /\ lastErr = OtherErr => pc = Fatal
      /\ pc = Fatal =>
           /\ apiHiveConfig = hcAtStart
           /\ o.endpointVpcIdx > 0 => o.endpointVpcId \in InventoryIds(ApiInventory)
C2_AbortStep ==
    /\ (cmd = "remove" /\ pc = Fatal /\ pc' = Fatal) =>
          UNCHANGED <<calls, lastErr, k8sVars, routes, ingress>>
    /\ routes' \subseteq routes
    /\ ingress' \subseteq ingress
    /\ {p \in peerings' : p.status = "active"} \subseteq peerings
C2_FailFast == [] C2_AbortState /\ [][C2_AbortStep]_vars
C2_Witness ==
    /\ RemoveRunning /\ pc = Fatal /\ lastErr = OtherErr
    /\ LastCall.call = "DeleteRoute"
    /\ "DeleteVpcPeeringConnection" \in CallNames

\* C3: a not-found answer to a route delete or an ingress revoke does not end
\* the run: the process goes on, an exit after it is due to another error,
\* and a run that completes has gone through the steps of every associated
\* VPC and has removed the endpoint VPC from HiveConfig.
NotFoundCodes == {"InvalidRoute.NotFound", "InvalidPermission.NotFound"}
C3_NotFoundTolerated ==
    RemoveRunning =>
      /\ lastErr \in NotFoundCodes => pc # Fatal
      /\ (pc = Fatal /\ seen # {}) => lastErr = OtherErr
      /\ (pc = "done" /\ seen # {}) =>
           /\ \A idx \in 1..Len(o.associatedVpcs) : SequenceFinished(idx)
           /\ o.endpointVpcId \notin InventoryIds(ApiInventory)
C3_Witness ==
    /\ RemoveRunning /\ pc = "done"
    /\ seen = NotFoundCodes
    /\ Len(o.associatedVpcs) = 2


\* C4: every error other than the not-found special case ends the process;
\* in `disable`, after a failed List or Delete of a hub-account credentials
\* Secret no HiveConfig update is issued.
C4_EveryErrorFatal ==
    /\ lastErr = OtherErr => pc = Fatal
    /\ (cmd = "disable" /\ OtherErr \in seen) => "UpdateHiveConfig" \notin CallNames

\* C5: per associated VPC the ingress revocations are, in this order, one on
\* the associated VPC's worker SG and one on the endpoint VPC's default SG,
\* both by peer security group when the two regions are equal and both by
\* peer CIDR block when they differ; there are exactly two once the loop has
\* moved past that associated VPC.
RevokeCalls(idx) ==
    LET IsRevoke(c) == TeardownStep(c) = 4 /\ AssocIndexOf(c) = idx
    IN SelectSeq(calls, IsRevoke)
ExpectedRevokes(idx) ==
    LET a == o.associatedVpcs[idx]
        e == o.endpointVpcId
        eRegion == StartInventory[o.endpointVpcIdx].Region
    IN IF a.Region = eRegion
       THEN << Call("RevokeAllIngressFromSG", a.Region, WorkerSGOf(a.VPCID), DefaultSGOf(e)),
               Call("RevokeAllIngressFromSG", eRegion, DefaultSGOf(e), WorkerSGOf(a.VPCID)) >>
       ELSE << Call("RevokeAllIngressFromCIDR", a.Region, WorkerSGOf(a.VPCID), CidrOf(e)),
               Call("RevokeAllIngressFromCIDR", eRegion, DefaultSGOf(e), CidrOf(a.VPCID)) >>
C5_RevokeByRegion ==
    RemoveRunning =>
      \A idx \in 1..Len(o.associatedVpcs) :
        LET r == RevokeCalls(idx)
        IN /\ Len(r) <= 2
           /\ r = SubSeq(ExpectedRevokes(idx), 1, Len(r))
           /\ idx < loc.i => Len(r) = 2
C5_Witness ==
    /\ RemoveRunning /\ pc = "done"
    /\ Len(o.associatedVpcs) = 2
    /\ {"RevokeAllIngressFromSG", "RevokeAllIngressFromCIDR"} \subseteq CallNames

\* C6: after a successful `remove vpc-id` the inventory on the API server is
\* one entry shorter, does not list vpc-id, lists every other previous entry
\* exactly once, and HiveConfig was written exactly once.
C6_InventoryAfterRemove ==
    (cmd = "remove" /\ pc = "done") =>
      /\ Len(ApiInventory) = Len(StartInventory) - 1
      /\ o.endpointVpcId \notin InventoryIds(ApiInventory)
      /\ \A i \in 1..Len(StartInventory) :
           StartInventory[i].VPCID # o.endpointVpcId =>
             Cardinality({j \in 1..Len(ApiInventory) : ApiInventory[j] = StartInventory[i]}) = 1
      /\ apiHiveConfig.awsPrivateLink # NilPrivateLink
      /\ apiHiveConfig.awsPrivateLink[1].associatedVPCs
           = hcAtStart.awsPrivateLink[1].associatedVPCs
      /\ Cardinality({j \in 1..Len(calls) : calls[j].call = "UpdateHiveConfig"}) = 1
C6_Witness ==
    /\ cmd = "remove" /\ pc = "done"
    /\ Len(StartInventory) >= 2
    /\ o.endpointVpcIdx < Len(StartInventory)

\* C7: with no associated VPC in HiveConfig, `remove` issues no teardown
\* call at all, goes from the default-SG lookup straight to the HiveConfig
\* update, and a completed run has removed the endpoint VPC from HiveConfig.
C7_NoAssociatedVpc ==
    (RemoveRunning /\ Len(o.associatedVpcs) = 0) =>
      /\ CallNames \subseteq {"GetHiveConfig", "GetDefaultSGOfVpc", "UpdateHiveConfig"}
      /\ (LastCall.call = "GetDefaultSGOfVpc" /\ lastErr = "ok") =>
            pc = "removeEndpointVpcFromHiveConfig"
      /\ pc = "done" =>
            /\ LastCall.call = "UpdateHiveConfig"
            /\ o.endpointVpcId \notin InventoryIds(ApiInventory)
      /\ pc = Fatal => lastErr = OtherErr
C7_Witness ==
    /\ RemoveRunning /\ Len(o.associatedVpcs) = 0
    /\ pc = "done"
    /\ Len(StartInventory) = 2

\* C8: `disable` started on a HiveConfig with at least one endpoint VPC and
\* at least one associated VPC exits before listing or deleting a Secret and
\* before updating HiveConfig, which stays as it was.
C8_DisableRefuses ==
    (/\ cmd = "disable"
     /\ hcAtStart.awsPrivateLink # NilPrivateLink
     /\ Len(StartInventory) > 0
     /\ Len(hcAtStart.awsPrivateLink[1].associatedVPCs) > 0) =>
      /\ pc \in {"Disable.Complete", "Disable.GetHiveConfig", Fatal}
      /\ CallNames \subseteq {"GetHiveConfig"}
      /\ apiHiveConfig = hcAtStart
C8_Witness ==
    /\ cmd = "disable" /\ pc = Fatal /\ lastErr = "ok"
    /\ Len(StartInventory) = 1
    /\ Len(hcAtStart.awsPrivateLink[1].associatedVPCs) > 0
    /\ HubSecret \in apiSecrets

\* C9: a `disable` run that completes leaves spec.awsPrivateLink nil and no
\* hub-account credentials Secret on the API server.
C9_DisableCompletes ==
    (cmd = "disable" /\ pc = "done") =>
      /\ apiHiveConfig.awsPrivateLink = NilPrivateLink
      /\ MatchingSecrets = {}

\* C10: the destroyer is constructed or run only with all four of --region,
\* --zone, --base-domain and --cluster-name set; with one of them empty the
\* command never gets past validation, and validation reports the first
\* missing flag in the order region, zone, base-domain, cluster-name.
PvsFlagMissing ==
    \/ pvsOpt.region = "" \/ pvsOpt.zone = ""
    \/ pvsOpt.baseDomain = "" \/ pvsOpt.clusterName = ""
PvsValidated ==
    /\ pvsPc \notin {"idle", "Complete", "Validate"}
    /\ pvsErr # "failed to get client"
C10_PowerVSValidation ==
    /\ pvsDestroyer # "none" => ~PvsFlagMissing
    /\ (PvsFlagMissing /\ pvsPc \notin {"idle", "Complete", "Validate"}) =>
          pvsPc = Fatal /\ pvsDestroyer = "none"
    /\ (PvsFlagMissing /\ PvsValidated) =>
          /\ pvsOpt.region = "" => pvsErr = "no --region provided, cannot proceed"
          /\ (pvsOpt.region # "" /\ pvsOpt.zone = "") =>
                pvsErr = "no --zone provided, cannot proceed"
          /\ (pvsOpt.region # "" /\ pvsOpt.zone # "" /\ pvsOpt.baseDomain = "") =>
                pvsErr = "no --base-domain provided, cannot proceed"
          /\ (pvsOpt.region # "" /\ pvsOpt.zone # "" /\ pvsOpt.baseDomain # "") =>
                pvsErr = "no --cluster-name provided, cannot proceed"
C10_Witness ==
    /\ pvsPc = Fatal
    /\ pvsOpt.region # "" /\ pvsOpt.zone = "" /\ pvsOpt.clusterName = ""
    /\ pvsErr = "no --zone provided, cannot proceed"
    /\ pvsDestroyer = "none"


\* ------------------------------------------------------------------ C11
GmsValidInputs == gms.cd.ClusterMetadata /\ gms.cd.PowerVS /\ gms.pool.PowerVS
GmsReturned == gms.pc = "done"
\* The zones the machine sets are to be generated for: the pool's, and the
\* region's when the pool specifies none.
GmsZones == IF gms.pool.Zones # <<>> THEN gms.pool.Zones ELSE gms.clientZones

\* C11: GenerateMachineSets on a valid PowerVS ClusterDeployment and
\* MachinePool returns, without error, exactly one MachineSet per zone (the
\* pool's Zones if any, otherwise the zones the PowerVS client returns for the
\* region), named <infraID>-worker-<zone suffix>, with the pool's replicas
\* spread over them.
C11_MachineSetPerZone ==
    (GmsReturned /\ GmsValidInputs /\ GmsZones # <<>>) =>
        /\ gms.err = ""
        /\ gms.ok
        /\ gms.machineSets =
             MachineSetsOver(testInfraID, workerRole, gms.pool.Replicas, GmsZones)

\* ------------------------------------------------------------------ C12
\* C12: GenerateMachineSets returns an error when the pool specifies no zones
\* and the PowerVS client returns no zones for the region.
C12_NoZonesIsError ==
    (GmsReturned /\ GmsValidInputs /\ gms.pool.Zones = <<>> /\ gms.clientZones = <<>>) =>
        gms.err # ""

\* ------------------------------------------------------------------ C13
\* The networking between an associated and an endpoint VPC that is still
\* in place: an active peering connection, a route to the peer's CIDR in a
\* route table of either VPC, an ingress rule from the peer.
NetworkingLeft(a, e) ==
    \/ ActivePeerings(a, e) # {}
    \/ RoutesOf(a, e) \cap routes # {}
    \/ IngressOf(a, e) \cap ingress # {}

\* C13: whatever `remove` runs took place, completed or aborted, an endpoint
\* VPC that HiveConfig on the API server does not list has, with every
\* associated VPC, no active peering connection, no route to the peer's CIDR
\* and no ingress rule from the peer left.
C13_AbsentOnlyIfCleaned ==
    \A e \in EndpointVpcIds :
        e \notin InventoryIds(ApiInventory) =>
            \A a \in AssociatedVpcIds : ~NetworkingLeft(a, e)
C13_Witness ==
    /\ cmd = "remove" /\ pc = "done"
    /\ faults > 0
    /\ StepCalls(1, 1) # {}
    /\ apiHiveConfig.awsPrivateLink # NilPrivateLink
    /\ ApiInventory = <<>>
    /\ Len(apiHiveConfig.awsPrivateLink[1].associatedVPCs) = 2

\* ------------------------------------------------------------------ C14
\* C14: running `remove` again after an aborted run is harmless: a run that
\* got past Complete exits only at a call that returned an unexpected error,
\* never at a peering connection, route or ingress rule an earlier run had
\* already deleted; when it completes it has gone through every remaining
\* step of every associated VPC, none of the networking is left, and the
\* endpoint VPC is removed from HiveConfig with the other entries kept.
C14_RerunCompletes ==
    RemoveRunning =>
      /\ pc = Fatal => lastErr = OtherErr
      /\ pc = "done" =>
           /\ \A idx \in 1..Len(o.associatedVpcs) :
                /\ SequenceFinished(idx)
                /\ ~NetworkingLeft(o.associatedVpcs[idx].VPCID, o.endpointVpcId)
           /\ apiHiveConfig = HiveConfigOf(
                  RemoveFromInventory(StartInventory, o.endpointVpcIdx),
                  o.associatedVpcs)
\* A re-run: an earlier run deleted the peering connection and a route and
\* then failed; this run found no active connection, was told the route does
\* not exist, revoked the ingress rules that were still there and completed.
C14_Witness ==
    /\ RemoveRunning /\ pc = "done"
    /\ faults > 0
    /\ seen = {"InvalidRoute.NotFound"}
    /\ StepCalls(1, 1) = {}
    /\ Len(o.associatedVpcs) >= 1
    /\ o.endpointVpcId \notin InventoryIds(ApiInventory)

\* ------------------------------------------------------------------ C15
\* The run was started for a VPC it cannot remove: spec.awsPrivateLink is
\* nil or the inventory does not list the VPC.
NothingToRemove ==
    \/ hcAtStart.awsPrivateLink = NilPrivateLink
    \/ o.endpointVpcId \notin InventoryIds(StartInventory)

\* C15: `remove vpc-id` on a HiveConfig whose spec.awsPrivateLink is nil, or
\* whose inventory does not list vpc-id, exits in Complete: it has read
\* HiveConfig at most, made no AWS call and no update, and HiveConfig on the
\* API server is as it was.  A completed `remove` leaves a HiveConfig of
\* that kind for its own vpc-id, so a second `remove` of it exits this way.
C15_NothingToRemove ==
    /\ (cmd = "remove" /\ pc # "Complete" /\ NothingToRemove) =>
         /\ pc = Fatal
         /\ CallNames \subseteq {"GetHiveConfig"}
         /\ o.endpointVpcIdx = 0
         /\ apiHiveConfig = hcAtStart
    /\ (cmd = "remove" /\ pc = "done") =>
         /\ apiHiveConfig.awsPrivateLink # NilPrivateLink
         /\ o.endpointVpcId \notin InventoryIds(ApiInventory)
\* The second `remove` of endpoint VPC 1: the inventory lists VPC 2 only,
\* which is the case only after VPC 1 was removed from it.
C15_Witness ==
    /\ cmd = "remove" /\ pc = Fatal /\ lastErr = "ok"
    /\ o.endpointVpcId = EndpointVpc(1)
    /\ InventoryIds(StartInventory) = {EndpointVpc(2)}
    /\ Len(calls) = 1

\* ------------------------------------------------------------------ C16
\* The peering connections between two VPCs in a given state.
PeeringsBetween(a, e, status) ==
    {p \in peerings : p.assoc = a /\ p.endpoint = e /\ p.status = status}
\* Route deletion of the current associated VPC has started.
RoutePcs == {"DescribeRouteTablesPages", "DeleteRoute"}
WaitCalls(idx) ==
    {j \in 1..Len(calls) : /\ calls[j].call = "WaitUntilVpcPeeringConnectionDeleted"
                           /\ AssocIndexOf(calls[j]) = idx}

\* C16 as stated: once route deletion has started for an associated VPC, no
\* active connection is left between it and the endpoint VPC, a delete that
\* was issued was followed by a completed wait, and no deletion of a
\* connection between the two is still pending.
C16_NeverWhilePending ==
    (RemoveRunning /\ pc \in RoutePcs) =>
        /\ PeeringsBetween(Assoc.VPCID, o.endpointVpcId, "active") = {}
        /\ StepCalls(loc.i, 1) # {} => WaitCalls(loc.i) # {}
        /\ PeeringsBetween(Assoc.VPCID, o.endpointVpcId, "deleting") = {}

\* What deleteVpcPeeringConnection does on the answer of the Describe call,
\* and from where route deletion is entered.
C16_PeeringStep ==
    /\ (cmd = "remove" /\ pc = "DescribeVpcPeeringConnections" /\ pc' \notin {pc, Fatal}) =>
          /\ pc' = IF PeeringsBetween(Assoc.VPCID, o.endpointVpcId, "active") = {}
                   THEN "DescribeRouteTablesPages" ELSE "DeleteVpcPeeringConnection"
          /\ peerings' = peerings
    /\ (cmd = "remove" /\ pc \notin RoutePcs /\ pc' \in RoutePcs) =>
          \/ pc = "DescribeVpcPeeringConnections"
          \/ /\ pc = "WaitUntilVpcPeeringConnectionDeleted"
             /\ \A p \in peerings' : PeeringId(p) # loc.peering
C16_RoutesState ==
    (RemoveRunning /\ pc \in RoutePcs) =>
        /\ PeeringsBetween(Assoc.VPCID, o.endpointVpcId, "active") = {}
        /\ StepCalls(loc.i, 1) = {} => WaitCalls(loc.i) = {}
        /\ StepCalls(loc.i, 1) # {} =>
             /\ WaitCalls(loc.i) # {}
             /\ PeeringsBetween(Assoc.VPCID, o.endpointVpcId, "deleting") = {}

\* C16 (as amended): with no active connection the run goes from the
\* Describe call straight to route deletion without issuing a delete; with
\* one, route deletion is entered only from a wait that found the connection
\* deleted; so in a run that issued the delete, route deletion never starts
\* while that deletion is pending.  A run that issued no delete may delete
\* routes while a deletion issued by an earlier, aborted run is pending.
C16_WaitBeforeRoutes == [] C16_RoutesState /\ [][C16_PeeringStep]_vars
C16_Witness ==
    /\ RemoveRunning /\ pc = "DeleteRoute"
    /\ StepCalls(loc.i, 1) # {} /\ WaitCalls(loc.i) # {}
    /\ loc.side = 1
    /\ PeeringsBetween(Assoc.VPCID, o.endpointVpcId, "deleting") = {}
    /\ \E p \in peerings : p.status = "active"

\* ------------------------------------------------------------------ C17
\* deleteRouteFromRouteTables has just returned nil for the associated
\* VPC's route tables (step 2) / the endpoint subnets' (step 3) of the
\* current iteration: the run is at the call that follows it.
RoutesReturned(step) ==
    IF step = 2
    THEN pc = "DescribeRouteTablesPages" /\ loc.side = 2 /\ loc.page = 1
    ELSE pc = "GetWorkerSGFromVpcId"
\* The DeleteRoute calls of a step are one per matching route table of the
\* VPC, all pages included, each for the route to the peer's CIDR.
EveryTableVisited(idx, step, vpc, peer) ==
    LET js == StepCalls(idx, step)
    IN /\ {calls[j].a : j \in js} = {RouteTableOf(vpc, k) : k \in 1..MaxRouteTables}
       /\ Cardinality(js) = MaxRouteTables
       /\ \A j \in js : calls[j].b = CidrOf(peer)

\* C17: deleteRouteFromRouteTables returns nil only after a DeleteRoute call
\* for the route to the peer's CIDR on every matching route table of the VPC,
\* over all pages; a route-not-found answer does not end the run, and the
\* next call is for the next route table.
C17_EveryRouteTable ==
    (RemoveRunning /\ pc # Fatal) =>
      /\ lastErr = "InvalidRoute.NotFound" => pc \in RoutePcs \cup {"GetWorkerSGFromVpcId"}
      /\ RoutesReturned(2) =>
           EveryTableVisited(loc.i, 2, Assoc.VPCID, o.endpointVpcId)
      /\ RoutesReturned(3) =>
           /\ EveryTableVisited(loc.i, 2, Assoc.VPCID, o.endpointVpcId)
           /\ EveryTableVisited(loc.i, 3, o.endpointVpcId, Assoc.VPCID)
      /\ pc = "DeleteRoute" =>
           Cardinality(StepCalls(loc.i, loc.side + 1)) = (loc.page - 1) * PageSize + loc.k - 1
      /\ (pc = "DescribeRouteTablesPages") =>
           Cardinality(StepCalls(loc.i, loc.side + 1)) = Min({(loc.page - 1) * PageSize, MaxRouteTables})
\* The first route table answered route-not-found and the run is about to
\* delete the route, which is there, from a route table of the next page.
C17_Witness ==
    /\ RemoveRunning /\ pc = "DeleteRoute"
    /\ lastErr = "ok" /\ "InvalidRoute.NotFound" \in seen
    /\ loc.page = NumPages /\ NumPages > 1
    /\ [rtb |-> PageOf(RouteVpc, loc.page)[loc.k], dest |-> RoutePeerCIDR] \in routes

\* ------------------------------------------------------------------ C18
StartAssociated ==
    IF hcAtStart.awsPrivateLink = NilPrivateLink THEN <<>>
    ELSE hcAtStart.awsPrivateLink[1].associatedVPCs

\* C18: each completed `remove` takes exactly its endpoint VPC out of the
\* inventory, so the inventory is empty once every endpoint VPC was removed.
\* As long as the inventory lists an endpoint VPC (and associated VPCs are
\* listed) `disable` is refused and leaves HiveConfig as it is; started on
\* the empty inventory it is not refused (it exits on an unexpected error
\* only) and, when it completes, spec.awsPrivateLink is nil.
C18_DisableAfterRemovals ==
    /\ (cmd = "remove" /\ pc = "done") =>
         /\ InventoryIds(ApiInventory) = InventoryIds(StartInventory) \ {o.endpointVpcId}
         /\ Len(ApiInventory) = Len(StartInventory) - 1
    /\ (cmd = "disable" /\ "GetHiveConfig" \in CallNames /\ (pc = Fatal => lastErr = "ok")) =>
         IF Len(StartInventory) > 0 /\ Len(StartAssociated) > 0
         THEN pc = Fatal /\ apiHiveConfig = hcAtStart /\ Len(calls) = 1
         ELSE pc # Fatal
    /\ (cmd = "disable" /\ pc = "done") =>
         apiHiveConfig.awsPrivateLink = NilPrivateLink
\* `disable` has completed on an enabled HiveConfig with associated VPCs and
\* an empty inventory; a peering connection of the second endpoint VPC is
\* still being deleted, so both endpoint VPCs were listed and were removed.
C18_Witness ==
    /\ cmd = "disable" /\ pc = "done"
    /\ apiHiveConfig.awsPrivateLink = NilPrivateLink
    /\ hcAtStart.awsPrivateLink # NilPrivateLink
    /\ StartInventory = <<>>
    /\ Len(StartAssociated) > 0
    /\ \E p \in peerings : p.endpoint = EndpointVpc(2) /\ p.status = "deleting"

\* ------------------------------------------------------------------ C19
\* C19: `disable` run on a HiveConfig whose spec.awsPrivateLink is already
\* nil exits on an unexpected error only, and when it completes
\* spec.awsPrivateLink is nil and no hub-account credentials Secret is left,
\* which is the state a second run finds and leaves unchanged.
C19_DisableIdempotent ==
    (cmd = "disable" /\ hcAtStart.awsPrivateLink = NilPrivateLink) =>
        /\ pc = Fatal => lastErr = OtherErr
        /\ pc = "done" =>
             /\ apiHiveConfig.awsPrivateLink = NilPrivateLink
             /\ MatchingSecrets = {}

====
